---- MODULE Spec2Model ----
(***************************************************************************)
(* Model of the gravity simulation core of threejs_gravsim:                *)
(* PhysicsEngine (src/js/PhysicsEngine.js), Planet (src/unnamed/part_004), *)
(* the pointer handlers of InputHandler (src/unnamed/part_003), the frame  *)
(* loop of the application (src/unnamed/part_002), the sound requests made *)
(* to AudioManager (src/unnamed/part_000) and the constants of             *)
(* src/unnamed/part_001.                                                   *)
(*                                                                         *)
(* Numbers.  The program computes in float64.  The model computes in       *)
(* fixed point: a length is an integer number of 1/Unit world units and a  *)
(* velocity is the displacement per tick (vx * TIME_SCALE) in the same     *)
(* unit.  The non-finite values of float64 that the program can produce    *)
(* (NaN, +Infinity, -Infinity) are kept as three reserved values with      *)
(* their IEEE 754 rules.                                                   *)
(*                                                                         *)
(* Tasks.  The program is single threaded; every handler runs to           *)
(* completion.  The handlers are the public operations of the engine and   *)
(* the zero-delay timer task that the Planet constructor schedules         *)
(* (initTrail).  Timer tasks of equal delay run in the order they were     *)
(* scheduled, so the pending tasks are a queue.  A handler that throws     *)
(* keeps the assignments it made before the throw.                         *)
(***************************************************************************)
EXTENDS Integers, Sequences, FiniteSets, TLC

(***************************************************************************)
(* Bounds of the model.                                                    *)
(***************************************************************************)
\* PlanetConstants.MAX_COUNT is 10 in the source; the engine is parametric
\* in it and the model is explored at a scaled-down capacity.
MAX_COUNT == 2
\* addPlanet calls in one behaviour
MaxAdds == 3
\* addPlanet calls in one behaviour of the fill-up specification
MaxFill == 5
\* update() calls in one behaviour
MaxSteps == 1
\* resolution of the fixed-point arithmetic: steps per world unit
Unit == 10
\* Date.now() when the engine is constructed
StartTime == 1000
\* milliseconds of wall-clock time that one behaviour covers
MaxElapsed == 106
\* an acceleration is far smaller than a length: where its sign or its being
\* zero matters it is computed in 1/FineScale of the length unit
FineScale == 10000

(***************************************************************************)
(* Program constants.                                                      *)
(***************************************************************************)
TRAIL_LENGTH == 10
TRAIL_UPDATE_INTERVAL == 35
COLLISION_EFFECT_DURATION == 105
SUN_RADIUS == 5
MIN_DISTANCE == 1
MAX_FORCE_DISTANCE == 100
\* G * SunConstants.MASS * TIME_SCALE^2 / DISTANCE_SCALE^2
\*   = 6.6743e-11 * 1.11e7 * (2.0e11)^2 / (1.0e9)^2 = 29.634, in 1/1000
SUN_GM == 29634
\* G * PlanetConstants.MASS * TIME_SCALE^2 / DISTANCE_SCALE^2
\*   = 6.6743e-11 * 200000 * (2.0e11)^2 / (1.0e9)^2 = 0.534, in 1/1000
PLANET_GM == 534

(***************************************************************************)
(* float64 arithmetic on the fixed-point grid.                             *)
(***************************************************************************)
PInf == 2^30
NInf == -(2^30)
NaN == 2^30 + 1

IsFinite(a) == a # NaN /\ a # PInf /\ a # NInf

Abs(a) == IF a < 0 THEN -a ELSE a

Sign(a) == IF a < 0 THEN -1 ELSE IF a > 0 THEN 1 ELSE 0

\* integer quotient rounded toward zero
TruncDiv(a, b) == Sign(a) * Sign(b) * (Abs(a) \div Abs(b))

\* The operations are functions of float64 values: each is applied to the
\* values of its operands, as the arithmetic of the program is.
Float == Int

FNeg == [a \in Float |->
    IF a = NaN THEN NaN ELSE IF a = PInf THEN NInf
    ELSE IF a = NInf THEN PInf ELSE -a]

FAbs == [a \in Float |->
    IF a = NaN THEN NaN ELSE IF a = NInf THEN PInf ELSE Abs(a)]

FAdd == [a \in Float, b \in Float |->
    IF a = NaN \/ b = NaN THEN NaN
    ELSE IF IsFinite(a) /\ IsFinite(b) THEN a + b
    ELSE IF IsFinite(a) THEN b
    ELSE IF IsFinite(b) \/ a = b THEN a
    ELSE NaN]

FSub == [a \in Float, b \in Float |-> FAdd[a, FNeg[b]]]

FMul == [a \in Float, b \in Float |->
    IF a = NaN \/ b = NaN THEN NaN
    ELSE IF IsFinite(a) /\ IsFinite(b) THEN a * b
    ELSE IF a = 0 \/ b = 0 THEN NaN
    ELSE IF Sign(a) * Sign(b) > 0 THEN PInf ELSE NInf]

\* the divisors of the program are products of magnitudes: a zero divisor is +0
FDiv == [a \in Float, b \in Float |->
    IF a = NaN \/ b = NaN THEN NaN
    ELSE IF IsFinite(a) /\ IsFinite(b)
         THEN IF b # 0 THEN TruncDiv(a, b)
              ELSE IF a = 0 THEN NaN ELSE IF a > 0 THEN PInf ELSE NInf
    ELSE IF IsFinite(a) THEN 0
    ELSE IF IsFinite(b) THEN (IF Sign(a) * Sign(b) >= 0 THEN a ELSE FNeg[a])
    ELSE NaN]

\* a < b and a > b of float64: false when either side is NaN
FLt == [a \in Float, b \in Float |-> a # NaN /\ b # NaN /\ a < b]
FGt == [a \in Float, b \in Float |-> a # NaN /\ b # NaN /\ a > b]

\* the largest r in lo..hi whose square does not exceed n, by bisection
SqrtSearch[n \in Nat, lo \in Nat, hi \in Nat] ==
    IF lo >= hi THEN lo
    ELSE IF ((lo + hi + 1) \div 2) * ((lo + hi + 1) \div 2) <= n
         THEN SqrtSearch[n, (lo + hi + 1) \div 2, hi]
         ELSE SqrtSearch[n, lo, (lo + hi + 1) \div 2 - 1]

\* largest grid value whose square does not exceed n
SqrtFloor == [n \in Nat |-> SqrtSearch[n, 0, 32767]]

\* Math.sqrt, rounded down to the grid
FSqrt == [a \in Float |->
    IF a = NaN \/ a = NInf THEN NaN
    ELSE IF a = PInf THEN PInf
    ELSE IF a < 0 THEN NaN
    ELSE SqrtFloor[a]]

(***************************************************************************)
(* State.                                                                  *)
(***************************************************************************)
VARIABLES
    planets,                  \* PhysicsEngine.planets: sequence of Planet objects
    timers,                   \* pending setTimeout(initTrail, 0) tasks: planet ids
    scene,                    \* THREE.Scene children: display objects
    now,                      \* Date.now()
    lastTrailUpdateTime,
    collisionEffectActive,
    collisionEffectX,
    collisionEffectY,
    collisionEffectStartTime,
    collisionEffectMesh,      \* Null, or the overlay mesh
    nextId,                   \* planets constructed so far
    steps,                    \* update() calls so far
    onlyAdds,                 \* no update / removeOutOfBoundsPlanets call so far
    lastOp,                   \* the handler that ran last
    lastResult,               \* "ok", or the error it threw
    ret,                      \* value returned by the last update()
    passLog,                  \* bodies examined by the last removal pass
    snap,                     \* array handle a caller holds from getPlanets()
    isPointerDown,            \* InputHandler.isPointerDown
    pointerStart,             \* <<pointerStartX, pointerStartY>>, in pixels
    pointerCurrent,           \* <<pointerCurrentX, pointerCurrentY>>, in pixels
    sounds,                   \* presets passed to AudioManager.playSound so far
    lastDrawTime,             \* of the frame loop (part_002:10)
    frameCalls,               \* the calls the last animate() made, in order
    effectFrames,             \* frames processed since the effect was activated
    effectShown               \* frames rendered that showed the effect since then

vars == <<planets, timers, scene, now, lastTrailUpdateTime,
          collisionEffectActive, collisionEffectX, collisionEffectY,
          collisionEffectStartTime, collisionEffectMesh,
          nextId, steps, onlyAdds, lastOp, lastResult, ret, passLog, snap,
          isPointerDown, pointerStart, pointerCurrent, sounds,
          lastDrawTime, frameCalls, effectFrames, effectShown>>

\* the fields of the input handler, and what the application has asked the
\* audio manager to play
inputVars == <<isPointerDown, pointerStart, pointerCurrent>>
frameVars == <<lastDrawTime, frameCalls, effectFrames, effectShown>>
appVars == <<isPointerDown, pointerStart, pointerCurrent, sounds,
             lastDrawTime, frameCalls, effectFrames, effectShown>>

effectVars == <<collisionEffectActive, collisionEffectX, collisionEffectY,
                collisionEffectStartTime, collisionEffectMesh>>

\* display objects
MeshOf(id) == <<"mesh", id>>
TrailLineOf(id) == <<"trail", id>>
\* faulty variant of the overlay mesh: left at the origin, where a new mesh is
EffectMeshAtOrigin(x, y, t) == <<"effect", 0, 0, t>>

\* the overlay mesh is told apart by where and when it was made
EffectMeshOf(x, y, t) == <<"effect", x, y, t>>

\* a Planet whose initTrail has not run has trailPositions undefined
Undefined == <<>>

NoHandle == [ref |-> "none", items |-> <<>>]

Ids(ps) == [i \in 1..Len(ps) |-> ps[i].id]

(***************************************************************************)
(* Planet (src/unnamed/part_004).                                          *)
(***************************************************************************)
\* new Planet(scene, x, y, vx, vy, color): the fields the constructor sets
NewPlanet(id, x, y, vx, vy) ==
    [id |-> id, x |-> x, y |-> y, vx |-> vx, vy |-> vy, trail |-> Undefined]

\* Planet.initTrail: TRAIL_LENGTH copies of the current position
initTrail(p) ==
    [p EXCEPT !.trail = [i \in 1..TRAIL_LENGTH |-> <<p.x, p.y>>]]

isOutOfBounds(p, maxX, maxY) ==
    FGt[FAbs[p.x], maxX] \/ FGt[FAbs[p.y], maxY]

SunRadiusSquared == (SUN_RADIUS * Unit) * (SUN_RADIUS * Unit)

isCollidedWithSun(p) ==
    LET distanceSquared == FAdd[FMul[p.x, p.x], FMul[p.y, p.y]]
    IN  FLt[distanceSquared, SunRadiusSquared]

\* the trail shift of Planet.update: slots 1..TRAIL_LENGTH-1 take the old
\* slots 0..TRAIL_LENGTH-2 and slot 0 takes the new position
ShiftTrail(trail, x, y) ==
    [j \in 1..TRAIL_LENGTH |-> IF j = 1 THEN <<x, y>> ELSE trail[j - 1]]

\* Planet.update(ax, ay, updateTrails).  Result: the planet after the call
\* and whether the call threw (reading trailPositions[j] of undefined).
PlanetUpdate(p, ax, ay, updateTrails) ==
    LET vx1 == FAdd[p.vx, ax]
        vy1 == FAdd[p.vy, ay]
        x1 == FAdd[p.x, vx1]
        y1 == FAdd[p.y, vy1]
        moved == [p EXCEPT !.vx = vx1, !.vy = vy1, !.x = x1, !.y = y1]
    IN  IF ~updateTrails THEN [planet |-> moved, result |-> "ok"]
        ELSE IF p.trail = Undefined
             THEN [planet |-> moved, result |-> "TypeError"]
        ELSE [planet |-> [moved EXCEPT !.trail = ShiftTrail(p.trail, x1, y1)],
              result |-> "ok"]

\* Planet.remove(): both scene.remove calls come first; then the disposals,
\* of which trailGeometry.dispose() throws when initTrail has not run.
PlanetRemove(p, sc) ==
    [scene |-> sc \ {MeshOf(p.id), TrailLineOf(p.id)},
     result |-> IF p.trail = Undefined THEN "TypeError" ELSE "ok"]

(***************************************************************************)
(* PhysicsEngine: forces.                                                  *)
(***************************************************************************)
SunK == (SUN_GM * Unit * Unit * Unit) \div 1000
PlanetK == (PLANET_GM * Unit * Unit * Unit) \div 1000

\* a pair of accelerations <<ax, ay>>, added and negated by component
Vec == Float \X Float

VAdd == [a \in Vec, b \in Vec |-> <<FAdd[a[1], b[1]], FAdd[a[2], b[2]]>>]

VNeg == [a \in Vec |-> <<FNeg[a[1]], FNeg[a[2]]>>]

\* lines 71-75 and 108-112: the force k / (r * r) and the acceleration
\* <<force * dx / r, force * dy / r>> it gives along <<dx, dy>>
Pull == [k \in Float, dx \in Float, dy \in Float, r \in Float |->
    LET force == FDiv[k, FMul[r, r]]
    IN  <<FDiv[FMul[force, dx], r], FDiv[FMul[force, dy], r]>>]

\* PhysicsEngine.calculateSunGravity: the acceleration added to one planet,
\* in 1/scale of the length unit
SunGravityAt(p, scale) ==
    LET dx == FNeg[p.x]
        dy == FNeg[p.y]
        r2 == FAdd[FMul[dx, dx], FMul[dy, dy]]
    IN  Pull[SunK * scale, dx, dy, FSqrt[r2]]

calculateSunGravity(p) == SunGravityAt(p, 1)

MaxDistanceSquared == (MAX_FORCE_DISTANCE * Unit) * (MAX_FORCE_DISTANCE * Unit)
MinDistanceSquared == (MIN_DISTANCE * Unit) * (MIN_DISTANCE * Unit)

PairR2(pi, pj) ==
    LET dx == FSub[pj.x, pi.x]
        dy == FSub[pj.y, pi.y]
    IN  FAdd[FMul[dx, dx], FMul[dy, dy]]

\* faulty variant of the cutoff test: >= instead of >
PairSkippedAtCutoff(pi, pj) ==
    FGt[PairR2(pi, pj), MaxDistanceSquared] \/ PairR2(pi, pj) = MaxDistanceSquared

\* the cutoff test of calculatePlanetGravity
PairSkipped(pi, pj) == FGt[PairR2(pi, pj), MaxDistanceSquared]

\* line 103: the squared distance, floored
EffectiveR2 == [r2 \in Float |->
    IF FLt[r2, MinDistanceSquared] THEN MinDistanceSquared ELSE r2]

\* line 105: the distance the force is computed from
PairR(pi, pj) == FSqrt[EffectiveR2[PairR2(pi, pj)]]

\* line 108: the force between the pair, from the floored distance
PairForceAt(pi, pj, scale) == FDiv[PlanetK * scale, FMul[PairR(pi, pj), PairR(pi, pj)]]

\* body of the pair loop of calculatePlanetGravity for the pair (i, j), i < j:
\* <<accelX, accelY>>, added to planet i and subtracted from planet j, in
\* 1/scale of the length unit
PairAccelAt(pi, pj, scale) ==
    IF PairSkipped(pi, pj) THEN <<0, 0>>
    ELSE Pull[PlanetK * scale, FSub[pj.x, pi.x], FSub[pj.y, pi.y], PairR(pi, pj)]

PairAccel(pi, pj) == PairAccelAt(pi, pj, 1)

\* what the pair loop adds to planet i on account of planet j
PairContribution(ps, i, j) ==
    IF i < j THEN PairAccel(ps[i], ps[j])
    ELSE IF j < i THEN VNeg[PairAccel(ps[j], ps[i])]
    ELSE <<0, 0>>

RECURSIVE SumPairs(_, _, _)
SumPairs(ps, i, j) ==
    IF j = 0 THEN <<0, 0>>
    ELSE VAdd[SumPairs(ps, i, j - 1), PairContribution(ps, i, j)]

\* calculatePlanetGravity: the pairwise acceleration accumulated per planet
calculatePlanetGravity(ps) ==
    [i \in 1..Len(ps) |-> SumPairs(ps, i, Len(ps))]

\* accelerationX[i], accelerationY[i] of update(): sun gravity, then pairs
Accelerations(ps) ==
    [i \in 1..Len(ps) |->
        VAdd[calculateSunGravity(ps[i]), SumPairs(ps, i, Len(ps))]]

(***************************************************************************)
(* Inputs of the environment, in world units.                              *)
(***************************************************************************)
\* <<x, y, vx, vy>> of addPlanet: at rest inside the sun's radius; exactly on
\* the radius and moving (inside the radius after the next tick)
SpawnInputs == { <<3, 0, 0, 0>>, <<5, 0, 0, 1>> }

\* <<x, y, vx, vy>> of addPlanet for the force computation, all at rest: on
\* the sun (the origin); near it, where two of them can coincide; and pairs
\* MAX_FORCE_DISTANCE apart and farther
GravityInputs ==
    { <<0, 0, 0, 0>>, <<3, 0, 0, 0>>, <<3, 4, 0, 0>>,
      <<-50, 0, 0, 0>>, <<50, 0, 0, 0>>, <<60, 0, 0, 0>> }

\* <<maxX, maxY>> of removeOutOfBoundsPlanets: the screen of the application
\* (camera.right + SCREEN_MARGIN for a square window) and a small region
BoundsInputs == { <<70, 70>>, <<2, 2>> }

\* what the wall clock advances by between two handlers: exactly the
\* duration of the collision effect, or one millisecond more
TickDeltas == { COLLISION_EFFECT_DURATION, COLLISION_EFFECT_DURATION + 1 }

(***************************************************************************)
(* Initial state: new PhysicsEngine(scene), PhysicsEngine.js lines 10-22.  *)
(***************************************************************************)
Null == <<>>

Init ==
    /\ planets = <<>>
    /\ timers = <<>>
    /\ scene = {}
    /\ now = StartTime
    /\ lastTrailUpdateTime = 0
    /\ collisionEffectActive = FALSE
    /\ collisionEffectX = 0
    /\ collisionEffectY = 0
    /\ collisionEffectStartTime = 0
    /\ collisionEffectMesh = Null
    /\ nextId = 0
    /\ steps = 0
    /\ onlyAdds = TRUE
    /\ lastOp = "constructor"
    /\ lastResult = "ok"
    /\ ret = "none"
    /\ passLog = <<>>
    /\ snap = NoHandle
    /\ isPointerDown = FALSE
    /\ pointerStart = <<0, 0>>
    /\ pointerCurrent = <<0, 0>>
    /\ sounds = <<>>
    /\ lastDrawTime = 0
    /\ frameCalls = <<>>
    /\ effectFrames = 0
    /\ effectShown = 0

\* what every handler records about itself
Record(op, result, returned, log) ==
    /\ lastOp' = op
    /\ lastResult' = result
    /\ ret' = returned
    /\ passLog' = log

(***************************************************************************)
(* PhysicsEngine.addPlanet, lines 31-41.                                   *)
(***************************************************************************)
\* faulty variants of the capacity test: one planet too late, one planet too early
ExceedsMaxLate(ps) == Len(ps) > MAX_COUNT + 1
ExceedsMaxEarly(ps) == Len(ps) >= MAX_COUNT

\* line 37: this.planets.length > PlanetConstants.MAX_COUNT
ExceedsMax(ps) == Len(ps) > MAX_COUNT

\* faulty variant of the eviction: pop() instead of shift()
PopNewest(ps) == [oldest |-> ps[Len(ps)], rest |-> SubSeq(ps, 1, Len(ps) - 1)]

\* line 38: this.planets.shift()
ShiftOldest(ps) == [oldest |-> Head(ps), rest |-> Tail(ps)]

\* lines 31-41 on the collection and the scene: what the call leaves, and the
\* error it throws (from oldest.remove()), if any
AddPlanetOutcome(x, y, vx, vy) ==
    LET planet == NewPlanet(nextId + 1, x, y, vx, vy)
        pushed == Append(planets, planet)
        withMesh == scene \cup {MeshOf(planet.id)}
        sh == ShiftOldest(pushed)
        rm == PlanetRemove(sh.oldest, withMesh)
    IN  IF ExceedsMax(pushed)
        THEN [planets |-> sh.rest, scene |-> rm.scene, result |-> rm.result]
        ELSE [planets |-> pushed, scene |-> withMesh, result |-> "ok"]

addPlanet(x, y, vx, vy) ==
    \E out \in {AddPlanetOutcome(x, y, vx, vy)} :
        /\ nextId' = nextId + 1
        /\ timers' = Append(timers, nextId + 1)
        /\ planets' = out.planets
        /\ scene' = out.scene
        /\ Record("addPlanet", out.result, "none", <<>>)
        /\ UNCHANGED <<now, lastTrailUpdateTime, effectVars, steps, onlyAdds, snap>>

AddBodyUpTo(n) ==
    /\ nextId < n
    /\ \E in \in SpawnInputs :
          addPlanet(in[1] * Unit, in[2] * Unit, in[3] * Unit, in[4] * Unit)
    /\ UNCHANGED appVars

AddBody == AddBodyUpTo(MaxAdds)

\* a caller that places bodies for the force computation
AddGravityBody ==
    /\ nextId < MaxAdds
    /\ \E in \in GravityInputs :
          addPlanet(in[1] * Unit, in[2] * Unit, in[3] * Unit, in[4] * Unit)
    /\ UNCHANGED appVars

\* a caller that only adds
FillBody == AddBodyUpTo(MaxFill)

\* a caller that stops adding at the capacity
AddWithinCapacity == AddBodyUpTo(MAX_COUNT)

(***************************************************************************)
(* The timer task of the Planet constructor: () => this.initTrail().       *)
(***************************************************************************)
InitTrailTask ==
    /\ timers # <<>>
    /\ LET id == Head(timers)
       IN  /\ timers' = Tail(timers)
           /\ planets' = [i \in 1..Len(planets) |->
                            IF planets[i].id = id THEN initTrail(planets[i])
                            ELSE planets[i]]
           /\ scene' = scene \cup {TrailLineOf(id)}
    /\ Record("initTrail", "ok", "none", <<>>)
    /\ UNCHANGED <<now, lastTrailUpdateTime, effectVars, nextId, steps, onlyAdds, snap>>
    /\ UNCHANGED appVars

(***************************************************************************)
(* The wall clock.                                                         *)
(***************************************************************************)
TickBy(deltas) ==
    /\ \E d \in deltas :
          /\ now + d <= StartTime + MaxElapsed
          /\ now' = now + d
    /\ Record("tick", "ok", "none", <<>>)
    /\ UNCHANGED <<planets, timers, scene, lastTrailUpdateTime, effectVars,
                   nextId, steps, onlyAdds, snap>>
    /\ UNCHANGED appVars

Tick == TickBy(TickDeltas)

(***************************************************************************)
(* PhysicsEngine.update, lines 129-170.                                    *)
(***************************************************************************)
\* shouldUpdateTrails, line 49
TrailsDue(t) == t - lastTrailUpdateTime > TRAIL_UPDATE_INTERVAL

\* faulty variant of the expiry test: >= instead of >
EffectExpiredAtDuration(t) == t - collisionEffectStartTime >= COLLISION_EFFECT_DURATION

\* line 136
EffectExpired(t) == t - collisionEffectStartTime > COLLISION_EFFECT_DURATION

\* lines 165-167: planets[i].update(...) for i = 0 .. length-1, until one throws
RECURSIVE UpdateLoop(_, _, _, _)
UpdateLoop(ps, acc, i, sample) ==
    IF i > Len(ps) THEN [planets |-> ps, result |-> "ok"]
    ELSE LET u == PlanetUpdate(ps[i], acc[i][1], acc[i][2], sample)
             ps1 == [ps EXCEPT ![i] = u.planet]
         IN  IF u.result # "ok" THEN [planets |-> ps1, result |-> u.result]
             ELSE UpdateLoop(ps1, acc, i + 1, sample)

BoolStr(b) == IF b THEN "true" ELSE "false"

\* lines 129-170 on the engine and the scene: what the call leaves, the error
\* it throws (from a Planet.update), if any, and the value it returns
UpdateOutcome ==
    LET sample == TrailsDue(now)
        expire == collisionEffectActive /\ EffectExpired(now)
        acc == Accelerations(planets)
        loop == IF Len(planets) = 0 THEN [planets |-> planets, result |-> "ok"]
                ELSE UpdateLoop(planets, acc, 1, sample)
    IN  [lastTrailUpdateTime |-> IF sample THEN now ELSE lastTrailUpdateTime,
         active |-> IF expire THEN FALSE ELSE collisionEffectActive,
         mesh |-> IF expire THEN Null ELSE collisionEffectMesh,
         scene |-> IF expire THEN scene \ {collisionEffectMesh} ELSE scene,
         planets |-> loop.planets,
         result |-> loop.result,
         returned |-> IF loop.result = "ok" THEN BoolStr(sample) ELSE "none"]

update ==
    \E out \in {UpdateOutcome} :
        /\ lastTrailUpdateTime' = out.lastTrailUpdateTime
        /\ collisionEffectActive' = out.active
        /\ collisionEffectMesh' = out.mesh
        /\ scene' = out.scene
        /\ planets' = out.planets
        /\ Record("update", out.result, out.returned, <<>>)
        /\ UNCHANGED <<collisionEffectX, collisionEffectY, collisionEffectStartTime,
                       timers, now, nextId, snap>>

Step ==
    /\ steps < MaxSteps
    /\ steps' = steps + 1
    /\ onlyAdds' = FALSE
    /\ update
    /\ UNCHANGED appVars

(***************************************************************************)
(* PhysicsEngine.removeOutOfBoundsPlanets, lines 177-219.                  *)
(***************************************************************************)
\* the engine fields and the scene as one value, threaded through the loop
EngineState ==
    [planets |-> planets, scene |-> scene,
     active |-> collisionEffectActive, x |-> collisionEffectX,
     y |-> collisionEffectY, startTime |-> collisionEffectStartTime,
     mesh |-> collisionEffectMesh,
     result |-> "ok", log |-> <<>>]

EffectOf(st) == <<st.active, st.x, st.y, st.startTime>>

\* faulty variant of the removal: the oldest planet is dropped, not the one
\* examined
RemoveOldest(ps, i) == Tail(ps)

\* splice(i, 1)
RemoveAt(ps, i) == [k \in 1..(Len(ps) - 1) |-> IF k < i THEN ps[k] ELSE ps[k + 1]]

\* lines 189 and 194: which branch examines the planet
RemovalPath(p, maxX, maxY) ==
    IF isOutOfBounds(p, maxX, maxY) THEN "boundary"
    ELSE IF isCollidedWithSun(p) THEN "collision"
    ELSE "none"

\* faulty variant of the collision record: an active effect is kept, not overwritten
RecordCollisionUnlessActive(st, p, t) ==
    LET mesh == EffectMeshOf(p.x, p.y, t)
    IN  IF st.active THEN st
        ELSE [st EXCEPT !.active = TRUE, !.x = p.x, !.y = p.y, !.startTime = t,
                        !.mesh = mesh,
                        !.scene = (st.scene \ {st.mesh}) \cup {mesh}]

\* lines 196-212: record the collision and replace the overlay mesh
RecordCollision(st, p, t) ==
    LET mesh == EffectMeshOf(p.x, p.y, t)
    IN  [st EXCEPT !.active = TRUE, !.x = p.x, !.y = p.y, !.startTime = t,
                   !.mesh = mesh,
                   !.scene = (st.scene \ {st.mesh}) \cup {mesh}]

\* one iteration of the loop at index i: the state after it
ExamineAt(st, i, maxX, maxY, t) ==
    LET p == st.planets[i]
        path == RemovalPath(p, maxX, maxY)
        st1 == IF path = "collision" THEN RecordCollision(st, p, t) ELSE st
        rm == PlanetRemove(p, st1.scene)
        removed == path # "none" /\ rm.result = "ok"
        entry == [id |-> p.id, index |-> i, x |-> p.x, y |-> p.y,
                  maxX |-> maxX, maxY |-> maxY, path |-> path,
                  removed |-> removed,
                  before |-> EffectOf(st), after |-> EffectOf(st1)]
    IN  IF path = "none" THEN [st EXCEPT !.log = Append(st.log, entry)]
        ELSE [st1 EXCEPT !.scene = rm.scene,
                         !.result = rm.result,
                         !.planets = IF removed THEN RemoveAt(st1.planets, i)
                                     ELSE st1.planets,
                         !.log = Append(st.log, entry)]

\* line 185: for (let i = length - 1; i >= 0; i--), until an iteration throws
RECURSIVE RemovalPass(_, _, _, _, _)
RemovalPass(st, i, maxX, maxY, t) ==
    IF i = 0 THEN st
    ELSE LET st1 == ExamineAt(st, i, maxX, maxY, t)
         IN  IF st1.result # "ok" THEN st1
             ELSE RemovalPass(st1, i - 1, maxX, maxY, t)

removeOutOfBoundsPlanets(maxX, maxY) ==
    \E st \in {RemovalPass(EngineState, Len(planets), maxX, maxY, now)} :
        /\ planets' = st.planets
        /\ scene' = st.scene
        /\ collisionEffectActive' = st.active
        /\ collisionEffectX' = st.x
        /\ collisionEffectY' = st.y
        /\ collisionEffectStartTime' = st.startTime
        /\ collisionEffectMesh' = st.mesh
        /\ Record("removeOutOfBoundsPlanets", st.result, "none", st.log)
        /\ UNCHANGED <<timers, now, lastTrailUpdateTime, nextId, steps, snap>>

RemoveOutOfRange ==
    /\ onlyAdds' = FALSE
    /\ \E b \in BoundsInputs : removeOutOfBoundsPlanets(b[1] * Unit, b[2] * Unit)
    /\ UNCHANGED appVars

(***************************************************************************)
(* Accessors, lines 225-259.                                               *)
(***************************************************************************)
getPlanetCount == Len(planets)

\* faulty variant of getPlanets: a copy of the array, [...this.planets]
getPlanetsCopy == [ref |-> "copy", items |-> planets]

\* getPlanets returns this.planets: a handle on the engine's own array
getPlanets == [ref |-> "live", items |-> <<>>]

hasActiveCollisionEffect == collisionEffectActive

\* the array a handle denotes
Deref(h) == IF h.ref = "live" THEN planets ELSE h.items

GetPlanets ==
    /\ snap' = getPlanets
    /\ Record("getPlanets", "ok", "none", <<>>)
    /\ UNCHANGED <<planets, timers, scene, now, lastTrailUpdateTime, effectVars,
                   nextId, steps, onlyAdds>>
    /\ UNCHANGED appVars

\* a caller removes the last element of the array it got from getPlanets
\* (Array.prototype.pop on the returned reference)
ExternalPop ==
    /\ snap.ref # "none"
    /\ Len(Deref(snap)) > 0
    /\ IF snap.ref = "live"
       THEN /\ planets' = SubSeq(planets, 1, Len(planets) - 1)
            /\ snap' = snap
       ELSE /\ planets' = planets
            /\ snap' = [snap EXCEPT !.items = SubSeq(snap.items, 1, Len(snap.items) - 1)]
    /\ onlyAdds' = FALSE
    /\ Record("externalPop", "ok", "none", <<>>)
    /\ UNCHANGED <<timers, scene, now, lastTrailUpdateTime, effectVars, nextId, steps>>
    /\ UNCHANGED appVars

(***************************************************************************)
(* InputHandler (src/unnamed/part_003).                                    *)
(***************************************************************************)
\* width and height of the container in pixels (a square window)
ContainerSize == 1000

\* half the height of the orthographic camera in world units (part_002:52)
VIEW_SIZE == 50

\* PhysicsConstants.SPEED_FACTOR * TIME_SCALE = 2.0e-14 * 2.0e11 = 0.004:
\* the displacement per tick for one pixel of drag, in 1/1000 world units
SPEED_FACTOR == 4

\* pointer positions in the container, in pixels
PointerInputs == { <<530, 500>>, <<780, 500>>, <<530, 250>> }

\* the arrow preview: startCircle, arrowLine and arrowHead in the scene
ArrowObjects == { <<"arrow", "startCircle">>, <<"arrow", "arrowLine">>,
                  <<"arrow", "arrowHead">> }

\* screenToWorld, lines 139-150: normalised device coordinates, unprojected
\* by the orthographic camera; on the fixed-point grid
screenToWorld(screenX, screenY) ==
    [x |-> TruncDiv((2 * screenX - ContainerSize) * VIEW_SIZE * Unit, ContainerSize),
     y |-> TruncDiv((ContainerSize - 2 * screenY) * VIEW_SIZE * Unit, ContainerSize)]

\* lines 110-116: the velocity of the new planet from the drag, y inverted
DragVelocity(start, current) ==
    [vx |-> TruncDiv((current[1] - start[1]) * SPEED_FACTOR * Unit, 1000),
     vy |-> TruncDiv((0 - (current[2] - start[2])) * SPEED_FACTOR * Unit, 1000)]

\* onPointerDown, lines 52-72; createArrowHelper removes the old arrow and
\* adds a new one
PointerDownAt(inputs) ==
    /\ \E p \in inputs :
          /\ isPointerDown' = TRUE
          /\ pointerStart' = p
          /\ pointerCurrent' = p
    /\ scene' = (scene \ ArrowObjects) \cup ArrowObjects
    /\ Record("onPointerDown", "ok", "none", <<>>)
    /\ UNCHANGED <<planets, timers, now, lastTrailUpdateTime, effectVars,
                   nextId, steps, onlyAdds, snap, sounds>>
    /\ UNCHANGED frameVars

PointerDown == PointerDownAt(PointerInputs)

\* onPointerMove, lines 78-97
PointerMove ==
    /\ \E p \in PointerInputs :
          pointerCurrent' = IF isPointerDown THEN p ELSE pointerCurrent
    /\ Record("onPointerMove", "ok", "none", <<>>)
    /\ UNCHANGED <<planets, timers, scene, now, lastTrailUpdateTime, effectVars,
                   nextId, steps, onlyAdds, snap, isPointerDown, pointerStart,
                   sounds>>
    /\ UNCHANGED frameVars

\* onPointerUp, lines 103-131.  The statements after addPlanet (playSound,
\* the reset of isPointerDown, removeArrowHelper) run only if it returns.
PointerUp ==
    IF ~isPointerDown
    THEN /\ Record("onPointerUp", "ok", "none", <<>>)
         /\ UNCHANGED <<planets, timers, scene, now, lastTrailUpdateTime,
                        effectVars, nextId, steps, onlyAdds, snap>>
         /\ UNCHANGED appVars
    ELSE /\ nextId < MaxAdds
         /\ LET v == DragVelocity(pointerStart, pointerCurrent)
                worldCoords == screenToWorld(pointerStart[1], pointerStart[2])
            IN  \E out \in {AddPlanetOutcome(worldCoords.x, worldCoords.y, v.vx, v.vy)} :
                   /\ nextId' = nextId + 1
                   /\ timers' = Append(timers, nextId + 1)
                   /\ planets' = out.planets
                   /\ Record("onPointerUp", out.result, "none", <<>>)
                   /\ IF out.result = "ok"
                      THEN /\ sounds' = Append(sounds, "planetCreation")
                           /\ isPointerDown' = FALSE
                           /\ scene' = out.scene \ ArrowObjects
                      ELSE /\ sounds' = sounds
                           /\ isPointerDown' = isPointerDown
                           /\ scene' = out.scene
         /\ UNCHANGED <<now, lastTrailUpdateTime, effectVars, steps, onlyAdds,
                        snap, pointerStart, pointerCurrent>>
         /\ UNCHANGED frameVars

(***************************************************************************)
(* The frame loop: animate (src/unnamed/part_002, lines 92-122).           *)
(***************************************************************************)
DRAW_INTERVAL == 70
SCREEN_MARGIN == 20

\* addPlanet calls in one behaviour of the frame loop
MaxFrameAdds == 2
\* milliseconds of wall-clock time that one behaviour of the frame loop covers
MaxFrameElapsed == 176

\* what the wall clock advances by between two callbacks of the frame loop:
\* half the drawing interval (twice: exactly the interval; three times:
\* exactly the duration of the effect), or one millisecond more than it
FrameDeltas == { DRAW_INTERVAL \div 2, DRAW_INTERVAL + 1 }

FrameTick ==
    /\ \E d \in FrameDeltas :
          /\ now + d <= StartTime + MaxFrameElapsed
          /\ now' = now + d
    /\ Record("tick", "ok", "none", <<>>)
    /\ UNCHANGED <<planets, timers, scene, lastTrailUpdateTime, effectVars,
                   nextId, steps, onlyAdds, snap>>
    /\ UNCHANGED appVars

\* milliseconds the clock can advance inside one frame, between the
\* Date.now() of animate (line 96) and the one of a collision
\* (PhysicsEngine.js:199)
MaxFrameWork == 1

FrameWork == {w \in {0, MaxFrameWork} : now + w <= StartTime + MaxFrameElapsed}

\* faulty variant of the frame gate: every callback processes a frame
FrameDueEveryCallback(t) == t >= lastDrawTime

\* line 99
FrameDue(t) == t - lastDrawTime > DRAW_INTERVAL

\* lines 109-110 for a square window: camera.right = camera.top = viewSize
MaxBounds == (VIEW_SIZE + SCREEN_MARGIN) * Unit

\* the engine after update(), as removeOutOfBoundsPlanets finds it
StateAfterUpdate(up) ==
    [planets |-> up.planets, scene |-> up.scene,
     active |-> up.active, x |-> collisionEffectX,
     y |-> collisionEffectY, startTime |-> collisionEffectStartTime,
     mesh |-> up.mesh,
     result |-> "ok", log |-> <<>>]

\* the calls of one processed frame, in order, up to the first that throws
FrameCallsUpTo(upResult, passResult) ==
    IF upResult # "ok" THEN <<"inputHandler.update", "update">>
    ELSE IF passResult # "ok"
         THEN <<"inputHandler.update", "update", "removeOutOfBoundsPlanets">>
    ELSE <<"inputHandler.update", "update", "removeOutOfBoundsPlanets",
           "sun.update", "getPlanetCount", "render">>

\* a removal pass recorded a collision
PassCollided(log) == \E k \in 1..Len(log) : log[k].path = "collision"

\* animate(): one callback of requestAnimationFrame
Animate ==
    IF ~FrameDue(now)
    THEN /\ frameCalls' = <<>>
         /\ Record("animate", "ok", "none", <<>>)
         /\ UNCHANGED <<planets, timers, scene, now, lastTrailUpdateTime,
                        effectVars, nextId, steps, onlyAdds, snap, inputVars,
                        sounds, lastDrawTime, effectFrames, effectShown>>
    ELSE \E up \in {UpdateOutcome} :
         \E w \in FrameWork :
         \E st \in {IF up.result = "ok"
                    THEN RemovalPass(StateAfterUpdate(up), Len(up.planets),
                                     MaxBounds, MaxBounds, now + w)
                    ELSE StateAfterUpdate(up)} :
         LET passResult == IF up.result = "ok" THEN st.result ELSE "ok"
             calls == FrameCallsUpTo(up.result, passResult)
             rendered == calls[Len(calls)] = "render"
             collided == PassCollided(st.log)
         IN  /\ lastDrawTime' = now
             /\ steps' = steps + 1
             /\ onlyAdds' = FALSE
             /\ lastTrailUpdateTime' = up.lastTrailUpdateTime
             /\ planets' = st.planets
             /\ scene' = st.scene
             /\ collisionEffectActive' = st.active
             /\ collisionEffectX' = st.x
             /\ collisionEffectY' = st.y
             /\ collisionEffectStartTime' = st.startTime
             /\ collisionEffectMesh' = st.mesh
             /\ frameCalls' = calls
             /\ effectFrames' = IF collided THEN 0
                                ELSE IF collisionEffectActive THEN effectFrames + 1
                                ELSE effectFrames
             /\ effectShown' = (IF collided THEN 0 ELSE effectShown)
                                  + (IF rendered /\ st.active THEN 1 ELSE 0)
             /\ Record("animate",
                       IF up.result # "ok" THEN up.result ELSE st.result,
                       "none", st.log)
             /\ now' = now + w
             /\ UNCHANGED <<timers, nextId, snap, inputVars, sounds>>

(***************************************************************************)
(* Specifications.                                                         *)
(***************************************************************************)
\* the engine under any interleaving of its operations, timer tasks and time
Next == AddBody \/ Step \/ RemoveOutOfRange \/ InitTrailTask \/ Tick

Spec == Init /\ [][Next]_vars

\* any interleaving of the operations and timer tasks within one millisecond
NextCore == AddBody \/ Step \/ RemoveOutOfRange \/ InitTrailTask

SpecCore == Init /\ [][NextCore]_vars

\* any interleaving of the operations, timer tasks and time, for a caller
\* that never overfills the engine
NextEffect == AddWithinCapacity \/ Step \/ RemoveOutOfRange \/ InitTrailTask \/ Tick

SpecEffect == Init /\ [][NextEffect]_vars

\* a caller that adds and sweeps, and keeps and mutates the array of getPlanets
NextAlias == AddBody \/ RemoveOutOfRange \/ InitTrailTask \/ GetPlanets \/ ExternalPop

SpecAlias == Init /\ [][NextAlias]_vars

\* consecutive addPlanet calls, with their timer tasks, and nothing else
NextFill == FillBody \/ InitTrailTask

SpecFill == Init /\ [][NextFill]_vars

\* bodies placed on, near and far from the sun, stepped, with their timer
\* tasks
NextGravity == AddGravityBody \/ Step \/ InitTrailTask

SpecGravity == Init /\ [][NextGravity]_vars

\* the input handler's events in any order, with the timer tasks
NextInput == PointerDown \/ PointerMove \/ PointerUp \/ InitTrailTask

SpecInput == Init /\ [][NextInput]_vars

\* a press of the pointer inside the sun, or away from it
FramePointerDown == PointerDownAt({<<530, 500>>, <<530, 250>>})

\* a release of the pointer, in a behaviour of at most MaxFrameAdds gestures
FramePointerUp == nextId < MaxFrameAdds /\ PointerUp

\* the application: gestures, timer tasks and the frame loop, as time passes
NextFrame == FramePointerDown \/ FramePointerUp \/ InitTrailTask \/ Animate \/ FrameTick

SpecFrame == Init /\ [][NextFrame]_vars

(***************************************************************************)
(* Properties.                                                             *)
(***************************************************************************)
LiveIds == {planets[i].id : i \in 1..Len(planets)}

EffectNow == <<collisionEffectActive, collisionEffectX, collisionEffectY,
               collisionEffectStartTime>>

\* the two predicates of the removal pass, on the position a log entry records
EntryOutOfBounds(e) == isOutOfBounds(e, e.maxX, e.maxY)
EntryCollided(e) == isCollidedWithSun(e)

\* C1: under every interleaving of addPlanet, update and
\* removeOutOfBoundsPlanets from the empty engine the number of live bodies
\* is between 0 and MAX_COUNT, and getPlanetCount() is that number.
C1_CountWithinCapacity ==
    /\ getPlanetCount = Cardinality(LiveIds)
    /\ 0 <= getPlanetCount
    /\ getPlanetCount <= MAX_COUNT

\* a full engine that has evicted, stepped or swept before
C1_Witness ==
    /\ getPlanetCount = MAX_COUNT
    /\ nextId > MAX_COUNT
    /\ ~onlyAdds
    /\ lastOp = "addPlanet"

\* C2: an addPlanet call on a full engine evicts exactly one body, the head
\* of the collection (the earliest created), whatever the positions and
\* velocities are; the new body is kept, at the tail.
C2_EvictionIsFifo ==
    [][(lastOp' = "addPlanet" /\ Len(planets) = MAX_COUNT)
         => /\ Len(planets') = MAX_COUNT
            /\ SubSeq(planets', 1, MAX_COUNT - 1) = Tail(planets)
            /\ planets'[MAX_COUNT].id = nextId'
            /\ planets'[MAX_COUNT].id \notin LiveIds]_vars

\* an eviction whose victim had moved: the head is not where it was spawned
C2_Witness ==
    /\ lastOp = "addPlanet"
    /\ nextId > MAX_COUNT
    /\ Len(planets) = MAX_COUNT
    /\ steps > 0
    /\ planets[MAX_COUNT].id = nextId

\* C3: after MAX_COUNT + k addPlanet calls (k >= 1) on the empty engine with
\* no update or removeOutOfBoundsPlanets in between, the count is MAX_COUNT
\* and the collection is the last MAX_COUNT bodies in creation order; for
\* k = 1 the oldest live body is the second one created.
C3_LastMaxCountSurvive ==
    (onlyAdds /\ nextId > MAX_COUNT)
      => /\ getPlanetCount = MAX_COUNT
         /\ Ids(planets) = [i \in 1..MAX_COUNT |-> nextId - MAX_COUNT + i]
         /\ (nextId = MAX_COUNT + 1 => planets[1].id = 2)

C3_Witness ==
    /\ onlyAdds
    /\ nextId = MAX_COUNT + 1
    /\ lastOp = "addPlanet"
    /\ planets[1].id = 2

\* C4: no public operation signals a failure, also while a body's deferred
\* trail initialisation is pending.
C4_NoOperationFails == lastResult = "ok"

\* C5: in a removal pass, a body that is out of bounds and inside the sun's
\* radius is removed by the boundary branch: it leaves the collection and
\* the collision effect is as it was before the body was examined.
C5_BoundaryWins ==
    \A k \in 1..Len(passLog) :
        LET e == passLog[k]
        IN  (EntryOutOfBounds(e) /\ EntryCollided(e))
              => /\ e.path = "boundary"
                 /\ e.after = e.before
                 /\ e.removed
                 /\ e.id \notin LiveIds

\* C6: in a removal pass, a body within bounds and strictly inside the sun's
\* radius is removed and the effect becomes active at the body's position
\* with startTime the current time; a body exactly on the radius is not
\* treated as collided.
C6_CollisionRemovesAndActivates ==
    \A k \in 1..Len(passLog) :
        LET e == passLog[k]
            r2 == e.x * e.x + e.y * e.y
        IN  /\ (~EntryOutOfBounds(e) /\ IsFinite(e.x) /\ IsFinite(e.y)
                  /\ r2 < SunRadiusSquared)
              => /\ e.after = <<TRUE, e.x, e.y, now>>
                 /\ e.removed
                 /\ e.id \notin LiveIds
            /\ (IsFinite(e.x) /\ IsFinite(e.y) /\ r2 = SunRadiusSquared)
              => e.path # "collision"

CollisionEntries ==
    {k \in 1..Len(passLog) :
        ~EntryOutOfBounds(passLog[k]) /\ EntryCollided(passLog[k])}

LastCollisionEntry ==
    passLog[CHOOSE k \in CollisionEntries : \A m \in CollisionEntries : m <= k]

C8_LastWriterWins ==
    /\ CollisionEntries # {}
         => /\ EffectNow = <<TRUE, LastCollisionEntry.x, LastCollisionEntry.y, now>>
            /\ collisionEffectMesh =
                 EffectMeshOf(LastCollisionEntry.x, LastCollisionEntry.y, now)
    /\ Cardinality({o \in scene : o[1] = "effect"}) <= 1

\* a pass in which two bodies at different places collided while an earlier
\* effect was still active
C8_Witness ==
    /\ lastResult = "ok"
    /\ \E k, m \in CollisionEntries :
          /\ k < m
          /\ <<passLog[k].x, passLog[k].y>> # <<passLog[m].x, passLog[m].y>>
          /\ passLog[m].before[1]

\* C9: an update() call made before the trail cooldown has elapsed leaves
\* every trail unchanged; one made after it leaves every trail with
\* TRAIL_LENGTH entries, the head being the position after this tick and
\* entries 1..TRAIL_LENGTH-1 the previous entries 0..TRAIL_LENGTH-2.
C9_TrailSampling ==
    [][lastOp' = "update"
         => /\ Len(planets') = Len(planets)
            /\ \A i \in 1..Len(planets) :
                  IF ~TrailsDue(now)
                  THEN planets'[i].trail = planets[i].trail
                  ELSE /\ Len(planets'[i].trail) = TRAIL_LENGTH
                       /\ Len(planets[i].trail) = TRAIL_LENGTH
                       /\ planets'[i].trail[1] = <<planets'[i].x, planets'[i].y>>
                       /\ \A j \in 2..TRAIL_LENGTH :
                             planets'[i].trail[j] = planets[i].trail[j - 1]]_vars

\* the array the caller holds
SnapView == Deref(snap)

BodyFinite(p) == IsFinite(p.x) /\ IsFinite(p.y) /\ IsFinite(p.vx) /\ IsFinite(p.vy)

AllFinite(ps) == \A i \in 1..Len(ps) : BodyFinite(ps[i])

\* C11: an update() call on bodies whose positions and velocities are finite
\* (a body on the origin and bodies at one place included) leaves the
\* position and velocity of every live body finite.
C11_StepKeepsFinite ==
    [][(steps' = steps + 1 /\ AllFinite(planets)) => AllFinite(planets')]_vars

\* the pair is beyond the cutoff of calculatePlanetGravity
BeyondCutoff(pi, pj) ==
    IsFinite(PairR2(pi, pj)) /\ PairR2(pi, pj) > MaxDistanceSquared

\* C12: in update(), a pair of bodies whose squared separation is strictly
\* greater than MAX_FORCE_DISTANCE squared adds exactly zero to the
\* acceleration of both, while each of the two still gets a nonzero
\* acceleration from the sun; a body all of whose pairs are beyond the cutoff
\* is accelerated by the sun alone; a pair exactly MAX_FORCE_DISTANCE apart
\* is not skipped.
C12_CutoffSkipsPair ==
    [][steps' = steps + 1
         => /\ \A i, j \in 1..Len(planets) :
                  i < j
                    => /\ BeyondCutoff(planets[i], planets[j])
                           => /\ PairAccelAt(planets[i], planets[j], FineScale) = <<0, 0>>
                              /\ PairContribution(planets, i, j) = <<0, 0>>
                              /\ PairContribution(planets, j, i) = <<0, 0>>
                              /\ SunGravityAt(planets[i], FineScale) # <<0, 0>>
                              /\ SunGravityAt(planets[j], FineScale) # <<0, 0>>
                       /\ PairR2(planets[i], planets[j]) = MaxDistanceSquared
                           => PairAccelAt(planets[i], planets[j], FineScale) # <<0, 0>>
            /\ \A i \in 1..Len(planets) :
                  (\A j \in 1..Len(planets) \ {i} : BeyondCutoff(planets[i], planets[j]))
                    => Accelerations(planets)[i] = calculateSunGravity(planets[i])]_vars

\* update() has run on two bodies that are farther apart than the cutoff
C12_Witness ==
    /\ lastOp = "update"
    /\ steps > 0
    /\ \E i, j \in 1..Len(planets) :
          i < j /\ BeyondCutoff(planets[i], planets[j])

\* the length of an acceleration <<ax, ay>>
Magnitude(v) == FSqrt[FAdd[FMul[v[1], v[1]], FMul[v[2], v[2]]]]

\* the inverse-square pull of one planet on another at exactly MIN_DISTANCE
\* (the force divided by the mass of the body it acts on)
PullAtFloor == PlanetK \div MinDistanceSquared

\* the pair is closer than the floor of calculatePlanetGravity
BelowFloor(pi, pj) ==
    IsFinite(PairR2(pi, pj)) /\ PairR2(pi, pj) < MinDistanceSquared

\* C13: in update(), a pair of bodies closer than MIN_DISTANCE is not
\* skipped, the force computed for it is the inverse-square force at exactly
\* MIN_DISTANCE, and the acceleration given to each of the two bodies has
\* the magnitude of that force divided by the body's mass.
C13_FloorForce ==
    [][steps' = steps + 1
         => \A i, j \in 1..Len(planets) :
               (i < j /\ BelowFloor(planets[i], planets[j]))
                 => /\ ~PairSkipped(planets[i], planets[j])
                    /\ PairForceAt(planets[i], planets[j], 1) = PullAtFloor
                    /\ Magnitude(PairContribution(planets, i, j)) = PullAtFloor
                    /\ Magnitude(PairContribution(planets, j, i)) = PullAtFloor]_vars

\* a === b of float64: false when either side is NaN
FEq == [a \in Float, b \in Float |-> a # NaN /\ b # NaN /\ a = b]

\* the sum of the first k pairwise accelerations of calculatePlanetGravity
RECURSIVE SumTo(_, _)
SumTo(f, k) == IF k = 0 THEN <<0, 0>> ELSE VAdd[SumTo(f, k - 1), f[k]]

\* the component c of an acceleration does not point away from the
\* displacement d
Toward(c, d) == IsFinite(c) /\ IsFinite(d) /\ Sign(c) \in {0, Sign(d)}

\* C14: of the accelerations update() computes, those a pair that is not
\* skipped adds to its two bodies are equal in magnitude and opposite in sign
\* in each axis, the one of body i points toward body j, and the pairwise
\* accelerations of all bodies sum to zero in each axis.
C14_EqualAndOpposite ==
    /\ \A i, j \in 1..Len(planets) :
          (i < j /\ ~PairSkipped(planets[i], planets[j]))
            => /\ \A k \in 1..2 :
                     /\ FEq[FAbs[PairContribution(planets, i, j)[k]],
                            FAbs[PairContribution(planets, j, i)[k]]]
                     /\ FEq[FAdd[PairContribution(planets, i, j)[k],
                                 PairContribution(planets, j, i)[k]], 0]
               /\ Toward(PairAccelAt(planets[i], planets[j], FineScale)[1],
                         FSub[planets[j].x, planets[i].x])
               /\ Toward(PairAccelAt(planets[i], planets[j], FineScale)[2],
                         FSub[planets[j].y, planets[i].y])
    /\ FEq[SumTo(calculatePlanetGravity(planets), Len(planets))[1], 0]
    /\ FEq[SumTo(calculatePlanetGravity(planets), Len(planets))[2], 0]

\* the display objects of planets in the scene: the planet each belongs to
SceneOwners == {o[2] : o \in {d \in scene : d[1] \in {"mesh", "trail"}}}

\* C15: a body that has left the collection (evicted, out of bounds or
\* collided) has no display object in the scene, neither left there by the
\* removal nor added later by its deferred initTrail task.
C15_NoDisplayObjectOfRemovedBody == SceneOwners \subseteq LiveIds

\* the requests for one preset among the calls of AudioManager.playSound
SoundCount(preset) == Cardinality({k \in 1..Len(sounds) : sounds[k] = preset})

\* C16: every step that takes the collision effect from idle to active
\* requests the 'sunCollision' preset exactly once, and no other step (a
\* boundary removal, an eviction, a restart of an active effect) requests it.
C16_CollisionCueOncePerActivation ==
    [][SoundCount("sunCollision")' =
          SoundCount("sunCollision")
            + (IF ~collisionEffectActive /\ collisionEffectActive' THEN 1 ELSE 0)]_vars

\* C17: update() returns true exactly when the time since the last trail
\* sample is strictly greater than the trail interval; it sets the trail
\* timer to the current time exactly then; and with no planets it still
\* makes this decision and the expiry check of the collision effect.
C17_StepReturnsSampleDecision ==
    [][(steps' = steps + 1) =>
          /\ ret' = BoolStr(now - lastTrailUpdateTime > TRAIL_UPDATE_INTERVAL)
          /\ lastTrailUpdateTime' =
                IF now - lastTrailUpdateTime > TRAIL_UPDATE_INTERVAL
                THEN now ELSE lastTrailUpdateTime
          /\ (Len(planets) = 0 =>
                collisionEffectActive' =
                   (collisionEffectActive
                      /\ ~(now - collisionEffectStartTime > COLLISION_EFFECT_DURATION)))]_vars

\* the ids of the planets a removal pass examined, in the order it did
ExaminedIds(log) == [k \in 1..Len(log) |-> log[k].id]

Reverse(seq) == [k \in 1..Len(seq) |-> seq[Len(seq) + 1 - k]]

\* C18: one removeOutOfBoundsPlanets pass examines every planet that was in
\* the collection when the pass began exactly once, newest first, however
\* many planets the pass removes.
C18_PassExaminesEveryBodyOnce ==
    [][(lastOp' = "removeOutOfBoundsPlanets") =>
          ExaminedIds(passLog') = Reverse(Ids(planets))]_vars

\* planet i after one tick of the semi-implicit Euler scheme, with the
\* acceleration acc: the velocity first, the position from the new velocity
EulerVelocity(p, acc) == <<FAdd[p.vx, acc[1]], FAdd[p.vy, acc[2]]>>

EulerPosition(p, v) == <<FAdd[p.x, v[1]], FAdd[p.y, v[2]]>>

\* C19: update() is a simultaneous semi-implicit Euler step.  The
\* acceleration of every planet comes from the positions at the start of the
\* tick; every planet gets velocity' = velocity + a * TIME_SCALE and
\* position' = position + velocity' * TIME_SCALE, whatever the clock reads.
C19_SemiImplicitEuler ==
    [][(steps' = steps + 1) =>
          /\ Len(planets') = Len(planets)
          /\ \A i \in 1..Len(planets) :
                LET v == EulerVelocity(planets[i], Accelerations(planets)[i])
                IN  /\ <<planets'[i].vx, planets'[i].vy>> = v
                    /\ <<planets'[i].x, planets'[i].y>> = EulerPosition(planets[i], v)]_vars

\* C20: a pointer-up that follows an unreleased pointer-down calls addPlanet
\* exactly once, requests 'planetCreation' exactly once and ends the
\* gesture; a pointer-up or pointer-move with no gesture in progress calls
\* neither and changes nothing; a pointer-down adds no planet, so repeated
\* pointer-downs before one pointer-up yield one planet.
C20_OneBodyPerGesture ==
    [][/\ (lastOp' = "onPointerUp" /\ isPointerDown) =>
             /\ nextId' = nextId + 1
             /\ SoundCount("planetCreation")' = SoundCount("planetCreation") + 1
             /\ ~isPointerDown'
       /\ (lastOp' \in {"onPointerUp", "onPointerMove"} /\ ~isPointerDown) =>
             UNCHANGED <<planets, timers, scene, nextId, sounds, inputVars,
                         effectVars, lastTrailUpdateTime>>
       /\ (lastOp' = "onPointerDown") =>
             /\ isPointerDown'
             /\ UNCHANGED <<planets, nextId, sounds>>]_vars

\* the calls of a frame that the engine's contract orders
EngineCalls(calls) ==
    SelectSeq(calls, LAMBDA c : c \in {"update", "removeOutOfBoundsPlanets",
                                        "getPlanetCount", "render"})

\* C21: a callback of the frame loop processes a frame exactly when strictly
\* more than DRAW_INTERVAL has passed since the last processed frame.  A
\* processed frame calls update() once, then removeOutOfBoundsPlanets once,
\* then reads the planet count and renders, and adds no planet; a callback
\* that processes no frame calls nothing and leaves the engine as it is.
C21_FrameCallOrder ==
    [][(lastOp' = "animate") =>
          IF now - lastDrawTime > DRAW_INTERVAL
          THEN /\ EngineCalls(frameCalls') =
                     <<"update", "removeOutOfBoundsPlanets", "getPlanetCount", "render">>
               /\ lastDrawTime' = now
               /\ nextId' = nextId
          ELSE /\ frameCalls' = <<>>
               /\ UNCHANGED <<planets, scene, effectVars, lastTrailUpdateTime,
                              lastDrawTime, nextId>>]_vars

\* the planets of a collection, as a set
PlanetSet(ps) == {ps[i] : i \in 1..Len(ps)}

\* C22: when removeOutOfBoundsPlanets(maxX, maxY) returns, no planet of the
\* collection is out of bounds or inside the sun; every planet that was
\* neither when the call began is still there with the same position,
\* velocity and trail; and the collection is in strictly increasing
\* creation order, in every reachable state.
C22_PassPostcondition ==
    [][/\ (lastOp' = "removeOutOfBoundsPlanets" /\ lastResult' = "ok") =>
             \A k \in 1..Len(passLog') : \A i \in 1..Len(planets') :
                 /\ ~isOutOfBounds(planets'[i], passLog'[k].maxX, passLog'[k].maxY)
                 /\ ~isCollidedWithSun(planets'[i])
       /\ (lastOp' = "removeOutOfBoundsPlanets") =>
             \A k \in 1..Len(passLog') : \A i \in 1..Len(planets) :
                 (/\ ~isOutOfBounds(planets[i], passLog'[k].maxX, passLog'[k].maxY)
                  /\ ~isCollidedWithSun(planets[i]))
                    => planets[i] \in PlanetSet(planets')
       /\ \A i, j \in 1..Len(planets') :
             i < j => planets'[i].id < planets'[j].id]_vars

\* a pass that returned after removing one planet and keeping another
C22_Witness ==
    /\ lastOp = "removeOutOfBoundsPlanets"
    /\ lastResult = "ok"
    /\ Len(planets) > 0
    /\ \E k \in 1..Len(passLog) : passLog[k].removed
    /\ \E k \in 1..Len(passLog) : passLog[k].path = "none"

\* the overlay meshes among the children of the scene
EffectMeshes == {o \in scene : o[1] = "effect"}

\* C23: the scene holds an overlay mesh of the collision effect exactly when
\* the effect is active, it never holds more than one, and the one it holds
\* is the engine's collisionEffectMesh, placed at
\* (collisionEffectX, collisionEffectY).
C23_OverlayMatchesEffect ==
    /\ collisionEffectActive <=> EffectMeshes # {}
    /\ Cardinality(EffectMeshes) <= 1
    /\ \A o \in EffectMeshes :
          /\ o = collisionEffectMesh
          /\ <<o[2], o[3]>> = <<collisionEffectX, collisionEffectY>>

\* a pass in which a collision replaced the overlay of an effect that was
\* active at another place
C23_Witness ==
    /\ lastOp = "removeOutOfBoundsPlanets"
    /\ collisionEffectActive
    /\ EffectMeshes # {}
    /\ \E k \in 1..Len(passLog) :
          /\ passLog[k].path = "collision"
          /\ passLog[k].before[1]
          /\ <<passLog[k].before[2], passLog[k].before[3]>>
                # <<collisionEffectX, collisionEffectY>>

====
